---- MODULE Spec2Model ----
(***************************************************************************)
(* Model of bin/compile-train-graphs-fsts.cc: the driver that reads a      *)
(* keyed archive of per-utterance grammar FSTs, compiles each into a       *)
(* decoding graph (one at a time when batch_size = 1, in batches through   *)
(* CompileGraphs otherwise) and writes the graphs to a keyed archive.      *)
(*                                                                         *)
(* main() is modelled as a sequential process; pc names the position in    *)
(* main.  The program's inputs (command line, resource files, the input    *)
(* archive) are chosen in Init.  The TrainingGraphCompiler and the table   *)
(* reader/writer are not part of the driver file; they are modelled from   *)
(* their documented contracts.                                             *)
(***************************************************************************)
EXTENDS Integers, Sequences, FiniteSets, TLC

\* ---------------------------------------------------------------- bounds
MaxLen == 3          \* longest input archive
NumGrammars == 2     \* distinct compilable grammars (grammar 0 never compiles)
MaxBatch == 3        \* largest --batch-size
MaxNegBatch == 1     \* smallest --batch-size is -MaxNegBatch

\* ------------------------------------------------------ program constants
kNoStateId == -1     \* fst::kNoStateId, Start() of an FST without states

Grammars == 0..NumGrammars
BatchSizes == (0 - MaxNegBatch)..MaxBatch
LexStates == {"ok", "noopen", "null"}
DisambigStates == {"none", "ok", "bad"}

VARIABLES
  num_args,       \* po.NumArgs()
  batch_size,     \* --batch-size
  files,          \* readability of tree, model, lexicon, disambig list
  archive,        \* content of graphs-rspecifier: sequence of [key, grammar]
  pc,             \* position in main
  exit_status,    \* exit status of the process, meaningful when pc = "exit"
  gc_constructed, \* TrainingGraphCompiler gc has been constructed
  pos,            \* fst_reader: index of the current archive entry
  read_log,       \* archive positions whose Key()/Value() the driver took
  written,        \* content of graphs-wspecifier: sequence of [key, fst]
  num_succeed, num_fail,
  keys, grammars, \* the batch vectors; grammars holds pointers into gheap
  fsts,           \* output vector of CompileGraphs: pointers into fheap
  cg_ok,          \* return value of the last CompileGraphs call
  i,              \* index of the write loop (1-based)
  gheap,          \* grammar copies made by the driver: [val, live]
  fheap,          \* graphs allocated by CompileGraphs: [val, live]
  ub,             \* "none", or the memory error the run has committed
  compiled,       \* CompileGraph or CompileGraphs has been called
  consumed,       \* keys handed to CompileGraphs so far, in call order
  summary         \* <<>> or <<num_succeed, num_fail>> as logged at the end

vars == <<num_args, batch_size, files, archive, pc, exit_status,
          gc_constructed, pos, read_log, written, num_succeed, num_fail,
          keys, grammars, fsts, cg_ok, i, gheap, fheap, ub, compiled,
          consumed, summary>>

inputs == <<num_args, batch_size, files, archive>>
counts == <<num_succeed, num_fail>>
batch == <<keys, grammars, fsts, cg_ok, i>>
heaps == <<gheap, fheap, ub>>

\* ------------------------------------------------- FSTs and the compiler
EmptyFst == [start |-> kNoStateId, body |-> 0]

Start(f) == f.start

DeleteStates(f) == EmptyFst

\* TrainingGraphCompiler::CompileGraph: a deterministic function of the
\* grammar; a grammar that has no path through the lexicon yields
\* success = false and an empty graph.
CompileGraph(g) ==
  IF g = 0 THEN [ok |-> FALSE, fst |-> EmptyFst]
           ELSE [ok |-> TRUE, fst |-> [start |-> 0, body |-> g]]

\* TrainingGraphCompiler::CompileGraphs per its contract: one graph per
\* grammar, same order, each what CompileGraph gives for that grammar.
CompileGraphs(gs) == [j \in 1..Len(gs) |-> CompileGraph(gs[j]).fst]

\* What a CompileGraphs call can hand back: its contract ("ok"), a reported
\* failure with or without graphs, or a result of the wrong length.
Outcomes == {"ok", "false_empty", "false_full", "short", "long"}

OutcomeRet(o) == o \in {"ok", "short", "long"}

OutcomeFsts(o, gs) ==
  LET full == CompileGraphs(gs) IN
  CASE o = "ok" -> full
    [] o = "false_empty" -> <<>>
    [] o = "false_full" -> full
    [] o = "short" -> SubSeq(full, 1, Len(full) - 1)
    [] o = "long" -> Append(full, EmptyFst)

\* ------------------------------------------------ table reader and writer
Done(p) == p > Len(archive)

Key(p) == archive[p].key

Value(p) == archive[p].grammar

ReaderNext(p) == p + 1

Write(w, k, f) == Append(w, [key |-> k, fst |-> f])

\* ------------------------------------------------------------- the heap
New(h, v) == Append(h, [val |-> v, live |-> TRUE])

Delete(h, p) == [h EXCEPT ![p].live = FALSE]

IsLive(h, p) == p \in 1..Len(h) /\ h[p].live

LiveCount(h) == Cardinality({p \in 1..Len(h) : h[p].live})

RECURSIVE NewAll(_, _)
NewAll(h, vs) == IF vs = <<>> THEN h ELSE NewAll(New(h, Head(vs)), Tail(vs))

RECURSIVE DeleteAll(_, _)
DeleteAll(h, ps) ==
  IF ps = <<>> THEN h ELSE DeleteAll(Delete(h, Head(ps)), Tail(ps))

\* mutant: the output graphs are never deleted
DeletePointersLeak(h, ps) == h

\* DeletePointers(&fsts): deletes every pointer of the vector.
DeletePointers(h, ps) == DeleteAll(h, ps)

\* the status a shell sees for exit(v) / return v from main
ExitStatus(v) == v % 256

\* status of a process killed by abort() (a failed assert)
AbortStatus == 134

\* ---------------------------------------------------------------- Init
Init ==
  /\ num_args \in {4, 5}
  /\ batch_size \in BatchSizes
  /\ files \in [tree : BOOLEAN, model : BOOLEAN,
                lex : LexStates, disambig : DisambigStates]
  /\ \E n \in 0..MaxLen : \E gs \in [1..n -> Grammars] :
       archive = [j \in 1..n |-> [key |-> j, grammar |-> gs[j]]]
  /\ pc = "args"
  /\ exit_status = 0
  /\ gc_constructed = FALSE
  /\ pos = 1
  /\ read_log = <<>>
  /\ written = <<>>
  /\ num_succeed = 0
  /\ num_fail = 0
  /\ keys = <<>>
  /\ grammars = <<>>
  /\ fsts = <<>>
  /\ cg_ok = TRUE
  /\ i = 1
  /\ gheap = <<>>
  /\ fheap = <<>>
  /\ ub = "none"
  /\ compiled = FALSE
  /\ consumed = <<>>
  /\ summary = <<>>

\* ------------------------------------------------------- control helpers
Goto(l) == pc' = l /\ exit_status' = exit_status

Exit(v) == pc' = "exit" /\ exit_status' = ExitStatus(v)

Abort == pc' = "exit" /\ exit_status' = AbortStatus

Throw == Goto("catch")

\* ------------------------------------------------- decisions of the driver
WrongNumArgs(n) == n # 5

\* Input or ContextDependency::Read throws on an unreadable tree
TreeFatal(f) == ~f.tree

\* Input or TransitionModel::Read throws on an unreadable model
ModelFatal(f) == ~f.model

\* the stream is not good(), or VectorFst::Read returned NULL
LexFatal(f) == f.lex # "ok"

\* mutant: the return value of ReadIntegerVectorSimple is ignored
DisambigIgnored(f) == FALSE

\* a file was named and ReadIntegerVectorSimple returned false
DisambigFatal(f) == f.disambig = "bad"

\* mutant: the test of CompileGraph's return value is inverted
SingleGraphInverted(g) ==
  LET r == CompileGraph(g) IN
  IF r.ok THEN DeleteStates(r.fst) ELSE r.fst

\* decode_fst as the single-mode loop leaves it before counting and writing
SingleGraph(g) ==
  LET r == CompileGraph(g) IN
  IF ~r.ok THEN DeleteStates(r.fst) ELSE r.fst

Succeeded(f) == Start(f) # kNoStateId

\* mutant: off by one in the batch-size test
FillCondOffByOne(p, n) == ~Done(p) /\ n <= batch_size

\* condition of the inner for loop that fills a batch
FillCond(p, n) == ~Done(p) /\ n < batch_size

\* mutant: the outer loop never tests the reader
OuterCondAlways(p) == TRUE

\* condition of the outer while loop
OuterCond(p) == ~Done(p)

\* mutant: the return value of CompileGraphs is ignored
ThrowNever(ok) == FALSE

ThrowOnFalse(ok) == ~ok

AssertFails(nf, nk) == nf # nk

\* mutant: keys are taken from the back of the batch
BatchEntryKeyReversed(ks, j) == ks[Len(ks) + 1 - j]

\* mutant: the graph of the neighbouring index is written
BatchEntryFstShifted(fs, j) == fs[(j % Len(fs)) + 1]

\* the entry written for index j of a batch
BatchEntryKey(ks, j) == ks[j]

BatchEntryFst(fs, j) == fs[j]

\* ------------------------------------------------------------- start-up
CheckArgs ==
  /\ pc = "args"
  /\ IF WrongNumArgs(num_args) THEN Exit(1) ELSE Goto("tree")
  /\ UNCHANGED <<inputs, gc_constructed, pos, read_log, written, counts,
                 batch, heaps, compiled, consumed, summary>>

ReadTree ==
  /\ pc = "tree"
  /\ IF TreeFatal(files) THEN Throw ELSE Goto("model")
  /\ UNCHANGED <<inputs, gc_constructed, pos, read_log, written, counts,
                 batch, heaps, compiled, consumed, summary>>

ReadModel ==
  /\ pc = "model"
  /\ IF ModelFatal(files) THEN Throw ELSE Goto("lex")
  /\ UNCHANGED <<inputs, gc_constructed, pos, read_log, written, counts,
                 batch, heaps, compiled, consumed, summary>>

ReadLexicon ==
  /\ pc = "lex"
  /\ IF LexFatal(files) THEN Exit(1) ELSE Goto("disambig")
  /\ UNCHANGED <<inputs, gc_constructed, pos, read_log, written, counts,
                 batch, heaps, compiled, consumed, summary>>

ReadDisambig ==
  /\ pc = "disambig"
  /\ IF DisambigFatal(files) THEN Throw ELSE Goto("gc")
  /\ UNCHANGED <<inputs, gc_constructed, pos, read_log, written, counts,
                 batch, heaps, compiled, consumed, summary>>

\* constructs gc, opens the reader and the writer, zeroes the counters
ConstructCompiler ==
  /\ pc = "gc"
  /\ gc_constructed' = TRUE
  /\ num_succeed' = 0
  /\ num_fail' = 0
  /\ IF batch_size = 1 THEN Goto("single") ELSE Goto("outer")
  /\ UNCHANGED <<inputs, pos, read_log, written, batch, heaps, compiled,
                 consumed, summary>>

\* ----------------------------------------------------------- single mode
SingleIter ==
  /\ pc = "single"
  /\ ~Done(pos)
  /\ LET key == Key(pos)
         decode_fst == SingleGraph(Value(pos))
     IN /\ IF Succeeded(decode_fst)
             THEN num_succeed' = num_succeed + 1 /\ num_fail' = num_fail
             ELSE num_fail' = num_fail + 1 /\ num_succeed' = num_succeed
        /\ written' = Write(written, key, decode_fst)
  /\ read_log' = Append(read_log, pos)
  /\ compiled' = TRUE
  /\ pos' = ReaderNext(pos)
  /\ Goto("single")
  /\ UNCHANGED <<inputs, gc_constructed, batch, heaps, consumed, summary>>

SingleEnd ==
  /\ pc = "single"
  /\ Done(pos)
  /\ Goto("log")
  /\ UNCHANGED <<inputs, gc_constructed, pos, read_log, written, counts,
                 batch, heaps, compiled, consumed, summary>>

\* ---------------------------------------------------------- batched mode
\* the while test; on entry keys and grammars are cleared and a fresh fsts
\* vector is in scope
OuterEnter ==
  /\ pc = "outer"
  /\ OuterCond(pos)
  /\ keys' = <<>>
  /\ grammars' = <<>>
  /\ fsts' = <<>>
  /\ Goto("fill")
  /\ UNCHANGED <<inputs, gc_constructed, pos, read_log, written, counts,
                 cg_ok, i, heaps, compiled, consumed, summary>>

OuterExit ==
  /\ pc = "outer"
  /\ ~OuterCond(pos)
  /\ Goto("log")
  /\ UNCHANGED <<inputs, gc_constructed, pos, read_log, written, counts,
                 batch, heaps, compiled, consumed, summary>>

FillPush ==
  /\ pc = "fill"
  /\ FillCond(pos, Len(grammars))
  /\ keys' = Append(keys, Key(pos))
  /\ gheap' = New(gheap, Value(pos))
  /\ grammars' = Append(grammars, Len(gheap) + 1)
  /\ read_log' = Append(read_log, pos)
  /\ pos' = ReaderNext(pos)
  /\ Goto("fill")
  /\ UNCHANGED <<inputs, gc_constructed, written, counts, fsts, cg_ok, i,
                 fheap, ub, compiled, consumed, summary>>

FillEnd ==
  /\ pc = "fill"
  /\ ~FillCond(pos, Len(grammars))
  /\ Goto("compile")
  /\ UNCHANGED <<inputs, gc_constructed, pos, read_log, written, counts,
                 batch, heaps, compiled, consumed, summary>>

CallCompileGraphs ==
  /\ pc = "compile"
  /\ \E o \in Outcomes :
       /\ o = "short" => Len(grammars) >= 1
       /\ LET out == OutcomeFsts(o, [j \in 1..Len(grammars) |->
                                        gheap[grammars[j]].val])
          IN /\ fheap' = NewAll(fheap, out)
             /\ fsts' = [j \in 1..Len(out) |-> Len(fheap) + j]
       /\ cg_ok' = OutcomeRet(o)
  /\ ub' = IF \E j \in 1..Len(grammars) : ~IsLive(gheap, grammars[j])
             THEN "use_after_free" ELSE ub
  /\ compiled' = TRUE
  /\ consumed' = consumed \o keys
  /\ Goto("check")
  /\ UNCHANGED <<inputs, gc_constructed, pos, read_log, written, counts,
                 keys, grammars, i, gheap, summary>>

CheckThrow ==
  /\ pc = "check"
  /\ ThrowOnFalse(cg_ok)
  /\ Throw
  /\ UNCHANGED <<inputs, gc_constructed, pos, read_log, written, counts,
                 batch, heaps, compiled, consumed, summary>>

CheckAbort ==
  /\ pc = "check"
  /\ ~ThrowOnFalse(cg_ok)
  /\ AssertFails(Len(fsts), Len(keys))
  /\ Abort
  /\ UNCHANGED <<inputs, gc_constructed, pos, read_log, written, counts,
                 batch, heaps, compiled, consumed, summary>>

CheckPass ==
  /\ pc = "check"
  /\ ~ThrowOnFalse(cg_ok)
  /\ ~AssertFails(Len(fsts), Len(keys))
  /\ i' = 1
  /\ Goto("write")
  /\ UNCHANGED <<inputs, gc_constructed, pos, read_log, written, counts,
                 keys, grammars, fsts, cg_ok, heaps, compiled, consumed,
                 summary>>

\* one iteration of the write loop: delete grammars[i], write keys[i]
WriteEntry ==
  /\ pc = "write"
  /\ i <= Len(fsts)
  /\ LET gp == grammars[i]
         fp == BatchEntryFst(fsts, i)
     IN /\ gheap' = Delete(gheap, gp)
        /\ written' = Write(written, BatchEntryKey(keys, i), fheap[fp].val)
        /\ ub' = IF ~IsLive(gheap, gp) THEN "double_delete"
                 ELSE IF ~IsLive(fheap, fp) THEN "use_after_free"
                 ELSE ub
  /\ i' = i + 1
  /\ Goto("write")
  /\ UNCHANGED <<inputs, gc_constructed, pos, read_log, counts, keys,
                 grammars, fsts, cg_ok, fheap, compiled, consumed, summary>>

\* after the write loop: count the batch, DeletePointers(&fsts)
WriteEnd ==
  /\ pc = "write"
  /\ i > Len(fsts)
  /\ num_succeed' = num_succeed + Len(fsts)
  /\ fheap' = DeletePointers(fheap, fsts)
  /\ ub' = IF \E j \in 1..Len(fsts) : ~IsLive(fheap, fsts[j])
             THEN "double_delete" ELSE ub
  /\ Goto("outer")
  /\ UNCHANGED <<inputs, gc_constructed, pos, read_log, written, num_fail,
                 batch, gheap, compiled, consumed, summary>>

\* ------------------------------------------------------------ the ending
LogSummary ==
  /\ pc = "log"
  /\ summary' = <<num_succeed, num_fail>>
  /\ Exit(0)
  /\ UNCHANGED <<inputs, gc_constructed, pos, read_log, written, counts,
                 batch, heaps, compiled, consumed>>

Catch ==
  /\ pc = "catch"
  /\ Exit(-1)
  /\ UNCHANGED <<inputs, gc_constructed, pos, read_log, written, counts,
                 batch, heaps, compiled, consumed, summary>>

Next ==
  \/ CheckArgs
  \/ ReadTree
  \/ ReadModel
  \/ ReadLexicon
  \/ ReadDisambig
  \/ ConstructCompiler
  \/ SingleIter
  \/ SingleEnd
  \/ OuterEnter
  \/ OuterExit
  \/ FillPush
  \/ FillEnd
  \/ CallCompileGraphs
  \/ CheckThrow
  \/ CheckAbort
  \/ CheckPass
  \/ WriteEntry
  \/ WriteEnd
  \/ LogSummary
  \/ Catch

Spec == Init /\ [][Next]_vars

\* main runs to its end: a sequential program always takes its next step
FairSpec == Spec /\ WF_vars(Next)

\* =====================================================================
\* Properties
\* =====================================================================
ArchiveKeys == [j \in 1..Len(archive) |-> archive[j].key]

WrittenKeys == [j \in 1..Len(written) |-> written[j].key]

NormalEnd == pc = "exit" /\ exit_status = 0

IsEmptyGraph(f) == f.start = kNoStateId

\* a resource file named on the command line cannot be read
Unreadable ==
  \/ ~files.tree
  \/ ~files.model
  \/ files.lex # "ok"
  \/ files.disambig = "bad"

\* the last CompileGraphs call returned false or a vector of the wrong size
BatchFailed ==
  /\ pc \in {"check", "catch", "exit"}
  /\ batch_size # 1
  /\ compiled
  /\ (~cg_ok \/ Len(fsts) # Len(keys))

\* the single-mode loop as a function of the archive: what a run with
\* batch_size = 1 writes from reader position p on, appended to w
RECURSIVE SingleRun(_, _)
SingleRun(p, w) ==
  IF Done(p) THEN w
  ELSE SingleRun(ReaderNext(p), Write(w, Key(p), SingleGraph(Value(p))))

\* C1: in both modes the output archive holds, at every moment, the keys of
\* the first entries of the input archive in input order, and a run that
\* completes normally has written exactly one entry per input key, in
\* order, also when some graphs are empty.
C1_OneEntryPerKeyInOrder ==
  /\ Len(written) <= Len(archive)
  /\ WrittenKeys = SubSeq(ArchiveKeys, 1, Len(written))
  /\ NormalEnd => WrittenKeys = ArchiveKeys

C1_Witness ==
  /\ NormalEnd
  /\ batch_size = 2
  /\ Len(archive) = 3
  /\ archive[2].grammar = 0
  /\ WrittenKeys = <<1, 2, 3>>
  /\ IsEmptyGraph(written[2].fst)

\* C2: for every batch size the (key, graph) sequence written is, at every
\* moment, a prefix of what the single-mode loop writes for the same
\* archive, and the whole of it when the run completes normally; so a
\* batched run and a single-mode run write the same sequence.
C2_BatchedEqualsSingle ==
  /\ Len(written) <= Len(SingleRun(1, <<>>))
  /\ written = SubSeq(SingleRun(1, <<>>), 1, Len(written))
  /\ NormalEnd => written = SingleRun(1, <<>>)

C2_Witness ==
  /\ NormalEnd
  /\ batch_size = 2
  /\ Len(archive) = 3
  /\ archive[1].grammar = 1
  /\ archive[2].grammar = 0
  /\ archive[3].grammar = 2
  /\ Len(written) = 3

\* C3: a grammar that cannot be compiled gets an empty graph under its own
\* key, a grammar that can be compiled a non-empty one; the run leaves the
\* loops early only for a batch-level failure, and without one it writes
\* every entry and exits with status 0.
C3_FailureNeverHalts ==
  /\ \A j \in 1..Len(written) :
       /\ j <= Len(archive)
       /\ written[j].key = archive[j].key
       /\ IsEmptyGraph(written[j].fst) <=> (archive[j].grammar = 0)
  /\ (gc_constructed /\ pc \in {"catch", "exit"} /\ ~BatchFailed) =>
       /\ pc = "exit"
       /\ exit_status = 0
       /\ Len(written) = Len(archive)

C3_Witness ==
  /\ NormalEnd
  /\ Len(archive) = 3
  /\ archive[1].grammar = 0
  /\ archive[2].grammar # 0
  /\ Len(written) = 3
  /\ IsEmptyGraph(written[1].fst)
  /\ ~IsEmptyGraph(written[2].fst)

\* C4: at normal completion num_fail is the number of empty graphs written,
\* num_succeed the number of non-empty graphs written, and they add up to
\* the number of archive entries.
C4_CountsExact ==
  NormalEnd =>
    /\ num_fail =
         Cardinality({j \in 1..Len(written) : IsEmptyGraph(written[j].fst)})
    /\ num_succeed =
         Cardinality({j \in 1..Len(written) : ~IsEmptyGraph(written[j].fst)})
    /\ num_succeed + num_fail = Len(archive)

\* C5: when the tree, the model, the lexicon or a named disambiguation file
\* cannot be read, the compiler is never constructed, nothing is read from
\* the input archive, nothing is compiled or written, and the run can only
\* end with a non-zero exit status.
C5_ConfigErrorIsFatal ==
  Unreadable =>
    /\ ~gc_constructed
    /\ pos = 1
    /\ read_log = <<>>
    /\ ~compiled
    /\ written = <<>>
    /\ summary = <<>>
    /\ pc \in {"args", "tree", "model", "lex", "disambig", "catch", "exit"}
    /\ pc = "exit" => exit_status # 0

C5_Witness ==
  /\ pc = "exit"
  /\ exit_status # 0
  /\ num_args = 5
  /\ files.tree
  /\ files.model
  /\ files.lex = "ok"
  /\ files.disambig = "bad"
  /\ Len(archive) = 2

\* C6: once CompileGraphs has returned false or a vector of the wrong size,
\* the output archive holds exactly the entries of the earlier batches and
\* never changes again, the reader never advances again, no summary is
\* logged, and the run can only end with a non-zero exit status.
C6_BatchFailureIsFatal ==
  /\ [](BatchFailed =>
          /\ WrittenKeys = SubSeq(ArchiveKeys, 1, Len(consumed) - Len(keys))
          /\ Len(written) = Len(consumed) - Len(keys)
          /\ summary = <<>>
          /\ pc = "exit" => exit_status # 0)
  /\ [][BatchFailed =>
          /\ BatchFailed'
          /\ pc' \in {"catch", "exit"}
          /\ written' = written
          /\ pos' = pos
          /\ read_log' = read_log
          /\ consumed' = consumed
          /\ summary' = summary]_vars

C6_Witness ==
  /\ BatchFailed
  /\ pc = "exit"
  /\ ~cg_ok
  /\ Len(fsts) = Len(keys)
  /\ batch_size = 2
  /\ Len(archive) = 3
  /\ Len(written) = 2
  /\ Len(keys) = 1

\* C7: with batch_size >= 2 keys and grammars always have equal length, at
\* most batch_size; every CompileGraphs call gets at least one grammar,
\* exactly batch_size of them unless the reader is done, and exactly the
\* archive entries that follow those of the earlier calls; at normal
\* completion the batches, in call order, make up the input archive.
C7_FixedSizeChunks ==
  batch_size >= 2 =>
    /\ Len(keys) = Len(grammars)
    /\ Len(grammars) <= batch_size
    /\ Len(consumed) <= Len(archive)
    /\ consumed = SubSeq(ArchiveKeys, 1, Len(consumed))
    /\ pc = "compile" =>
         /\ Len(grammars) >= 1
         /\ Len(grammars) = batch_size \/ Done(pos)
         /\ Len(consumed) % batch_size = 0
         /\ pos = Len(consumed) + Len(keys) + 1
         /\ keys = SubSeq(ArchiveKeys, Len(consumed) + 1, pos - 1)
         /\ \A j \in 1..Len(grammars) :
              /\ IsLive(gheap, grammars[j])
              /\ gheap[grammars[j]].val = archive[Len(consumed) + j].grammar
    /\ pc \in {"check", "write", "outer"} => pos = Len(consumed) + 1
    /\ NormalEnd => consumed = ArchiveKeys

C7_Witness ==
  /\ pc = "compile"
  /\ batch_size = 2
  /\ Len(archive) = 3
  /\ Len(consumed) = 2
  /\ Len(keys) = 1

\* C8: for batch_size >= 1 the driver terminates; the reader only ever
\* advances by one entry, the entries taken are always exactly those before
\* the reader position, in archive order, and at normal completion the
\* reader is done with every entry taken once.
C8_TerminatesSinglePass ==
  /\ [][pos' = pos \/ (pos' = pos + 1 /\ ~Done(pos))]_vars
  /\ [](batch_size >= 1 =>
          /\ read_log = [j \in 1..(pos - 1) |-> j]
          /\ NormalEnd => (Done(pos) /\ Len(read_log) = Len(archive)))
  /\ (batch_size >= 1) => <>(pc = "exit")

C8_Witness ==
  /\ NormalEnd
  /\ batch_size = 2
  /\ Len(archive) = 3
  /\ read_log = <<1, 2, 3>>
  /\ Done(pos)

\* C9: on a non-empty archive the driver terminates for every batch size,
\* zero and negative ones included, because every CompileGraphs call is
\* made on at least one newly read entry.
C9_TerminatesForEveryBatchSize ==
  /\ [][(pc = "fill" /\ pc' = "compile") => Len(keys') >= 1]_vars
  /\ (Len(archive) >= 1) => <>(pc = "exit")

====
